---------------------------- MODULE Spec2Model ----------------------------
(***************************************************************************)
(* State-history engine of the Enhanced Calculator: the Operation Registry *)
(* (app/operations.py), the History Manager (app/history.py), the memento  *)
(* (app/calculator_memento.py) and the Calculator (app/calculator.py),     *)
(* with its observer notification; and, around it, the operand validation  *)
(* (app/input_validators.py), the two observers (app/logger.py) and the    *)
(* REPL (app/calculator_repl.py): its loop, its commands and the history   *)
(* files it writes and reads.                                              *)
(*                                                                         *)
(* Conventions.                                                            *)
(*   - An optional value (Python's None or an object) is a sequence of     *)
(*     length at most one: <<>> is None, <<x>> is the object x.            *)
(*   - A number is a record [k, n, d].  k = "rat" is the exact rational    *)
(*     n/d in lowest terms with d > 0.  k = "pow" is the value of the      *)
(*     Python expression n ** (1/d) where it is not a rational the model   *)
(*     can name (an irrational or a complex number).  k = "nan" and       *)
(*     k = "inf" are the floats nan and inf (n is the sign of inf).        *)
(*   - An operation name is a record [text, caps]: the letters of the      *)
(*     string folded to lower case and the set of positions that are in    *)
(*     upper case, so that str.lower() is a real conversion.               *)
(*   - An exception is a record [type, msg, origin]; origin is the class   *)
(*     whose code raised it.                                               *)
(***************************************************************************)
EXTENDS Integers, Sequences, FiniteSets, TLC

(* ------------------------------ bounds -------------------------------- *)

\* The first operand of execute_operation is -MaxOperand or MaxOperand, the
\* second one -MaxOperand, 0 or MaxOperand.
MaxOperand == 2

\* No execute_operation makes the undo stack longer than this many snapshots
\* (the genesis snapshot included).  The specifications that are wide in
\* another direction (every operation, the observers) stop one snapshot
\* earlier, at WideHistory.
MaxHistory == 3

WideHistory == MaxHistory - 1

\* register_observer is not called once the observer list is this long.
MaxObservers == 2

(* ------------------------------ numbers ------------------------------- *)

Abs(x) == IF x < 0 THEN -x ELSE x

RECURSIVE GCD(_, _)
GCD(x, y) == IF y = 0 THEN x ELSE GCD(y, x % y)

\* The rational n/d (d # 0) in lowest terms, denominator positive.
Rat(n, d) ==
    LET g == GCD(Abs(n), Abs(d))
        s == IF d < 0 THEN -1 ELSE 1
    IN  [k |-> "rat", n |-> (s * n) \div g, d |-> (s * d) \div g]

Num(i) == Rat(i, 1)

\* Python's a // b on integers, b # 0: rounds toward negative infinity.
FloorDiv(x, y) == IF y > 0 THEN x \div y ELSE (-x) \div (-y)

\* Python's a % b on integers, b # 0: the sign follows the divisor.
PyMod(x, y) == x - y * FloorDiv(x, y)

RECURSIVE IntPow(_, _)
IntPow(x, e) == IF e = 0 THEN 1 ELSE x * IntPow(x, e - 1)

(* ----------------------------- exceptions ----------------------------- *)

ValueError(msg, origin) == [type |-> "ValueError", msg |-> msg, origin |-> origin]

\* Raised by the interpreter, not by a raise statement of the source.
ZeroDivisionError(origin) == [type |-> "ZeroDivisionError", msg |-> "", origin |-> origin]

Returns(v) == [raised |-> <<>>, value |-> v]
Raises(e) == [raised |-> <<e>>, value |-> Num(0)]

(* ------------------------ app/operations.py --------------------------- *)

Add(a, b) == Returns(Num(a + b))

Subtract(a, b) == Returns(Num(a - b))

Multiply(a, b) == Returns(Num(a * b))

Divide(a, b) ==
    IF b = 0 THEN Raises(ValueError("Cannot divide by zero.", "Divide"))
    ELSE Returns(Rat(a, b))

\* a ** b: an integer for b >= 0 (0 ** 0 is 1), 1 / a ** -b for b < 0, where
\* a = 0 makes the interpreter raise ZeroDivisionError.
Power(a, b) ==
    IF b >= 0 THEN Returns(Num(IntPow(a, b)))
    ELSE IF a = 0 THEN Raises(ZeroDivisionError("Power"))
    ELSE Returns(Rat(1, IntPow(a, -b)))

\* Root with the exponent 1/b computed before the even-root check.
Root_divides_first(a, b) ==
    IF b = 0 THEN Raises(ZeroDivisionError("Root"))
    ELSE IF a < 0 /\ b % 2 = 0
    THEN Raises(ValueError("Cannot take an even root of a negative number.", "Root"))
    ELSE IF a = 0 THEN (IF b > 0 THEN Returns(Num(0)) ELSE Raises(ZeroDivisionError("Root")))
    ELSE IF b = 1 THEN Returns(Num(a))
    ELSE IF b = -1 THEN Returns(Rat(1, a))
    ELSE IF a = 1 THEN Returns(Num(1))
    ELSE Returns([k |-> "pow", n |-> a, d |-> b])

\* a ** (1/b), after the even-root check.  1/b raises for b = 0; 0 raised to
\* a negative power raises; a ** 1.0 and a ** -1.0 are a and 1/a; 1 to any
\* power is 1; every other case is a float the model names by [k |-> "pow"].
Root(a, b) ==
    IF a < 0 /\ b % 2 = 0
    THEN Raises(ValueError("Cannot take an even root of a negative number.", "Root"))
    ELSE IF b = 0 THEN Raises(ZeroDivisionError("Root"))
    ELSE IF a = 0 THEN (IF b > 0 THEN Returns(Num(0)) ELSE Raises(ZeroDivisionError("Root")))
    ELSE IF b = 1 THEN Returns(Num(a))
    ELSE IF b = -1 THEN Returns(Rat(1, a))
    ELSE IF a = 1 THEN Returns(Num(1))
    ELSE Returns([k |-> "pow", n |-> a, d |-> b])

Modulus(a, b) ==
    IF b = 0 THEN Raises(ValueError("Cannot perform modulus with zero.", "Modulus"))
    ELSE Returns(Num(PyMod(a, b)))

\* Integer division that rounds toward zero, as int(a / b) does.
IntegerDivide_truncates(a, b) ==
    IF b = 0 THEN Raises(ZeroDivisionError("IntegerDivide"))
    ELSE Returns(Num((IF (a < 0) = (b < 0) THEN 1 ELSE -1) * (Abs(a) \div Abs(b))))

IntegerDivide(a, b) ==
    IF b = 0 THEN Raises(ZeroDivisionError("IntegerDivide"))
    ELSE Returns(Num(FloorDiv(a, b)))

Percentage(a, b) ==
    IF b = 0 THEN Raises(ZeroDivisionError("Percentage"))
    ELSE Returns(Rat(a * 100, b))

AbsoluteDifference(a, b) == Returns(Num(Abs(a - b)))

\* operation.calculate(a, b), dispatched on the class of the operation.
calculate(cls, a, b) ==
    CASE cls = "Add" -> Add(a, b)
      [] cls = "Subtract" -> Subtract(a, b)
      [] cls = "Multiply" -> Multiply(a, b)
      [] cls = "Divide" -> Divide(a, b)
      [] cls = "Power" -> Power(a, b)
      [] cls = "Root" -> Root(a, b)
      [] cls = "Modulus" -> Modulus(a, b)
      [] cls = "IntegerDivide" -> IntegerDivide(a, b)
      [] cls = "Percentage" -> Percentage(a, b)
      [] cls = "AbsoluteDifference" -> AbsoluteDifference(a, b)

\* OperationFactory._operations: lower-case name -> operation class.
_operations ==
    [n \in {"add", "subtract", "multiply", "divide", "power", "root",
            "modulus", "int_divide", "percent", "abs_diff"} |->
        CASE n = "add" -> "Add"
          [] n = "subtract" -> "Subtract"
          [] n = "multiply" -> "Multiply"
          [] n = "divide" -> "Divide"
          [] n = "power" -> "Power"
          [] n = "root" -> "Root"
          [] n = "modulus" -> "Modulus"
          [] n = "int_divide" -> "IntegerDivide"
          [] n = "percent" -> "Percentage"
          [] n = "abs_diff" -> "AbsoluteDifference"]

\* A string with its letters in the given case: caps is the set of positions
\* written in upper case.
Str(text, caps) == [text |-> text, caps |-> caps]

\* str.lower(): every letter in lower case.
lower(s) == [s EXCEPT !.caps = {}]

\* dict.get(key): the class under a key that equals one of the (all
\* lower-case) keys of the dict, None otherwise.
_operations_get(key) ==
    IF key.caps = {} /\ key.text \in DOMAIN _operations
    THEN <<_operations[key.text]>>
    ELSE <<>>

\* create_operation with a default: an unknown name gives Add.
create_operation_defaults(operation_name) ==
    LET operation_class == _operations_get(lower(operation_name))
    IN  [raised |-> <<>>,
         cls |-> IF operation_class = <<>> THEN "Add" ELSE operation_class[1]]

\* create_operation without lower(): the name is looked up as it is given.
create_operation_exact(operation_name) ==
    LET operation_class == _operations_get(operation_name)
    IN  IF operation_class = <<>>
        THEN [raised |-> <<ValueError("Unknown operation: ", "OperationFactory")>>,
              cls |-> ""]
        ELSE [raised |-> <<>>, cls |-> operation_class[1]]

\* OperationFactory.create_operation(operation_name): the class of the
\* operation instance returned, or the ValueError raised (its message is
\* kept up to the name it ends with).
create_operation(operation_name) ==
    LET operation_class == _operations_get(lower(operation_name))
    IN  IF operation_class = <<>>
        THEN [raised |-> <<ValueError("Unknown operation: ", "OperationFactory")>>,
              cls |-> ""]
        ELSE [raised |-> <<>>, cls |-> operation_class[1]]

\* OperationFactory.create_operation(operation_name).calculate(a, b): the
\* class of the operation, and what calculate returned or what either call
\* raised.
create_and_calculate(operation_name, a, b) ==
    LET operation == create_operation(operation_name)
    IN  IF operation.raised # <<>>
        THEN [cls |-> "", raised |-> operation.raised, value |-> Num(0)]
        ELSE LET result == calculate(operation.cls, a, b)
             IN  [cls |-> operation.cls, raised |-> result.raised,
                  value |-> result.value]

(* ------------------------------ inputs -------------------------------- *)

Operands_a == {-MaxOperand, MaxOperand}

Operands_b == {-MaxOperand, 0, MaxOperand}

\* The ten registered names as the REPL passes them, two of them in another
\* case ("Add", "DIVIDE"), and a name the registry does not know.
OperationNames ==
    {Str(n, {}) : n \in DOMAIN _operations}
        \cup {Str("add", {1}), Str("divide", 1..6), Str("bogus", {})}

\* The names the specifications that are deep or wide in another direction
\* draw from: an operation that never fails, one that fails for b = 0, and
\* an unknown name.
FewNames == {Str("add", {}), Str("divide", {}), Str("bogus", {})}

\* The positions of the letters of a name: every position but the one of
\* the underscore of int_divide and abs_diff.
Letters ==
    [n \in DOMAIN _operations \cup {"bogus"} |->
        CASE n \in {"add"} -> 1..3
          [] n \in {"root"} -> 1..4
          [] n \in {"power", "bogus"} -> 1..5
          [] n \in {"divide"} -> 1..6
          [] n \in {"modulus", "percent"} -> 1..7
          [] n \in {"subtract", "multiply"} -> 1..8
          [] n \in {"abs_diff"} -> (1..8) \ {4}
          [] n \in {"int_divide"} -> (1..10) \ {4}]

\* Every registered name and an unknown one, each written in lower case,
\* capitalised, in upper case, and with its last letter only in upper case.
CasedNames ==
    UNION {{Str(n, caps) : caps \in {{}, {1}, Letters[n],
                                     {CHOOSE m \in Letters[n] :
                                         \A x \in Letters[n] : x <= m}}} :
           n \in DOMAIN Letters}

\* The operands of an operation applied outside a Calculator.
Values == -MaxOperand..MaxOperand

\* The observers that may be registered: the LoggingObserver of app/logger.py,
\* whose update returns, and an implementation of Observer whose update
\* raises.
Observers == {"LoggingObserver", "FaultyObserver"}

(* --------------------- app/calculator_memento.py ---------------------- *)

CalculatorMemento(state) == [_state |-> state]

get_state(memento) == memento._state

(* -------------------------- app/history.py ---------------------------- *)

\* The three methods of HistoryManager, as functions of the two stacks:
\* each gives the stacks after the call and the value returned.

\* save without the clear of the redo stack.
HistoryManager_save_keeps_redo(h, r, memento) ==
    [_history |-> Append(h, memento), _redo_stack |-> r, ret |-> <<>>]

HistoryManager_save(h, r, memento) ==
    [_history |-> Append(h, memento), _redo_stack |-> <<>>, ret |-> <<>>]

\* undo that pops the last memento and does not keep it for redo.
HistoryManager_undo_discards(h, r) ==
    IF Len(h) < 2
    THEN [_history |-> h, _redo_stack |-> r, ret |-> <<>>]
    ELSE LET popped == SubSeq(h, 1, Len(h) - 1)
         IN  [_history |-> popped, _redo_stack |-> r,
              ret |-> <<popped[Len(popped)]>>]

\* undo with the test len(self._history) < 1: the genesis snapshot is popped.
HistoryManager_undo_pops_genesis(h, r) ==
    IF Len(h) < 1
    THEN [_history |-> h, _redo_stack |-> r, ret |-> <<>>]
    ELSE LET popped == SubSeq(h, 1, Len(h) - 1)
         IN  [_history |-> popped,
              _redo_stack |-> Append(r, h[Len(h)]),
              ret |-> IF popped = <<>> THEN <<>> ELSE <<popped[Len(popped)]>>]

\* undo that returns the memento it popped, not the one below it.
HistoryManager_undo_returns_popped(h, r) ==
    IF Len(h) < 2
    THEN [_history |-> h, _redo_stack |-> r, ret |-> <<>>]
    ELSE [_history |-> SubSeq(h, 1, Len(h) - 1),
          _redo_stack |-> Append(r, h[Len(h)]),
          ret |-> <<h[Len(h)]>>]

HistoryManager_undo(h, r) ==
    IF Len(h) < 2
    THEN [_history |-> h, _redo_stack |-> r, ret |-> <<>>]
    ELSE LET last_memento == h[Len(h)]
             popped == SubSeq(h, 1, Len(h) - 1)
         IN  [_history |-> popped,
              _redo_stack |-> Append(r, last_memento),
              ret |-> <<popped[Len(popped)]>>]

\* redo with pop(0): the oldest undone memento comes back first.
HistoryManager_redo_pops_oldest(h, r) ==
    IF r = <<>>
    THEN [_history |-> h, _redo_stack |-> r, ret |-> <<>>]
    ELSE [_history |-> Append(h, r[1]), _redo_stack |-> Tail(r), ret |-> <<r[1]>>]

HistoryManager_redo(h, r) ==
    IF r = <<>>
    THEN [_history |-> h, _redo_stack |-> r, ret |-> <<>>]
    ELSE LET memento_to_restore == r[Len(r)]
         IN  [_history |-> Append(h, memento_to_restore),
              _redo_stack |-> SubSeq(r, 1, Len(r) - 1),
              ret |-> <<memento_to_restore>>]

(* ------------------------- app/calculator.py -------------------------- *)

VARIABLES
    _current_result,    \* Calculator._current_result
    _history,           \* HistoryManager._history, the undo stack
    _redo_stack,        \* HistoryManager._redo_stack
    last_calculation,   \* Calculator.last_calculation: <<>> or <<Calculation>>
    _observers,         \* Calculator._observers, in registration order
    call,               \* what the last call did, as its caller sees it
    round_trip,         \* history variables: what the calls so far were,
    branch,             \*   as far as the claims about sequences of calls
    sequence,           \*   need it (see "sequences of calls" below)
    other,              \* the instance attributes of a second Calculator
    on,                 \* the Calculator the last call was made on: "A", "B"
    registered_on,      \* history variable: per Calculator, the observers
                        \*   registered through it and not unregistered since
    calculated,         \* an operation applied to operands outside a Calculator
    history,            \* App.history, the session history of the REPL
    repl,               \* what the last command of the REPL did
    validation,         \* validate_operands applied to a list of strings
    config,             \* the settings of app.calculator_config.config
    auto_saver,         \* the attributes of the App's AutoSaveObserver
    files,              \* the CSV files of the history directory
    updated,            \* the call of update this step made on an observer
                        \*   from outside the Calculator (<<>>: none)
    loop                \* App.start: the loop, or the exit that ended it

core == <<_current_result, _history, _redo_stack, last_calculation>>
tracked == <<round_trip, branch, sequence>>
instances == <<other, on, registered_on>>
persistence == <<config, auto_saver, files>>
app == <<history, repl, validation, persistence, updated, loop>>
outside == <<other, on, registered_on, calculated, app>>
vars == <<_current_result, _history, _redo_stack, last_calculation, _observers,
          call, round_trip, branch, sequence, other, on, registered_on,
          calculated, history, repl, validation, config, auto_saver, files,
          updated, loop>>

\* No App is constructed: nothing is validated, configured, saved or read.
NoApp ==
    /\ validation = <<>>
    /\ config = <<>>
    /\ auto_saver = <<>>
    /\ files = <<>>
    /\ updated = <<>>
    /\ loop = <<>>

\* The instance attributes of the Calculator the variables describe ("A").
self ==
    [_current_result |-> _current_result, _history |-> _history,
     _redo_stack |-> _redo_stack, last_calculation |-> last_calculation]

\* Calculation with the two operands stored in each other's place.
Calculation_swapped(a, b, operation, result) ==
    [a |-> b, b |-> a, operation |-> operation, result |-> result]

\* app/calculation.py: the record a successful execute_operation builds.
Calculation(a, b, operation, result) ==
    [a |-> a, b |-> b, operation |-> operation, result |-> result]

\* A call and its outcome: the method and its arguments, the exception it
\* raised to its caller (<<>>: it returned), the Calculation it returned,
\* the memento the History Manager handed to the Calculator, and the calls
\* of update it made, in their order: the observer, and the last_calculation
\* the subject showed it.
Outcome(method, args, raised, returned, memento, notified) ==
    [method |-> method, args |-> args, raised |-> raised, returned |-> returned,
     memento |-> memento, notified |-> notified]

\* Observer.update(subject): the last_calculation the observer reads from
\* the subject, and what its update raises (<<>>: it returns).
update(observer, subject) ==
    [seen |-> [observer |-> observer, last_calculation |-> subject.last_calculation],
     raised |-> IF observer = "FaultyObserver"
                THEN <<[type |-> "RuntimeError", msg |-> "", origin |-> "Observer"]>>
                ELSE <<>>]

\* Calculator._notify_observers: update is called on the observers in list
\* order; the first exception ends the loop and propagates.
RECURSIVE _notify_observers(_, _)
_notify_observers(obs, subject) ==
    IF obs = <<>> THEN [notified |-> <<>>, raised |-> <<>>]
    ELSE LET first == update(Head(obs), subject)
         IN  IF first.raised # <<>>
             THEN [notified |-> <<first.seen>>, raised |-> first.raised]
             ELSE LET rest == _notify_observers(Tail(obs), subject)
                  IN  [notified |-> <<first.seen>> \o rest.notified,
                       raised |-> rest.raised]

\* Calculator.create_memento
create_memento(current) == CalculatorMemento(current)

\* Calculator.restore_from_memento: the new _current_result.
restore_from_memento(memento) ==
    IF memento # <<>> THEN get_state(memento[1]) ELSE Num(0)

\* list.remove(x): the list without the first element equal to x.
RECURSIVE remove(_, _)
remove(list, x) ==
    IF list = <<>> THEN <<>>
    ELSE IF Head(list) = x THEN Tail(list)
    ELSE <<Head(list)>> \o remove(Tail(list), x)

\* Calculator.register_observer
register_observer(observer) ==
    /\ _observers' = Append(_observers, observer)
    /\ call' = Outcome("register_observer", <<observer>>, <<>>, <<>>, <<>>, <<>>)
    /\ UNCHANGED core

\* unregister_observer without the try: the ValueError of list.remove for an
\* observer that is not in the list reaches the caller.
unregister_observer_uncaught(observer) ==
    /\ _observers' = remove(_observers, observer)
    /\ call' = Outcome("unregister_observer", <<observer>>,
                       IF \E k \in 1..Len(_observers) : _observers[k] = observer
                       THEN <<>>
                       ELSE <<ValueError("list.remove(x): x not in list", "list")>>,
                       <<>>, <<>>, <<>>)
    /\ UNCHANGED core

\* Calculator.unregister_observer: list.remove raises ValueError for an
\* observer that is not in the list, which the method catches.
unregister_observer(observer) ==
    /\ _observers' = remove(_observers, observer)
    /\ call' = Outcome("unregister_observer", <<observer>>, <<>>, <<>>, <<>>, <<>>)
    /\ UNCHANGED core

\* undo without restore_from_memento: the stacks move, the result stays.
undo_without_restore ==
    \E hm \in {HistoryManager_undo(_history, _redo_stack)} :
        /\ _history' = hm._history
        /\ _redo_stack' = hm._redo_stack
        /\ call' = Outcome("undo", <<>>, <<>>, <<>>, hm.ret, <<>>)
        /\ UNCHANGED <<_current_result, last_calculation, _observers>>

\* undo that also drops last_calculation.
undo_forgets_calculation ==
    \E hm \in {HistoryManager_undo(_history, _redo_stack)} :
        /\ _history' = hm._history
        /\ _redo_stack' = hm._redo_stack
        /\ _current_result' = restore_from_memento(hm.ret)
        /\ last_calculation' = <<>>
        /\ call' = Outcome("undo", <<>>, <<>>, <<>>, hm.ret, <<>>)
        /\ UNCHANGED _observers

\* Calculator.undo
undo ==
    \E hm \in {HistoryManager_undo(_history, _redo_stack)} :
        /\ _history' = hm._history
        /\ _redo_stack' = hm._redo_stack
        /\ _current_result' = restore_from_memento(hm.ret)
        /\ call' = Outcome("undo", <<>>, <<>>, <<>>, hm.ret, <<>>)
        /\ UNCHANGED <<last_calculation, _observers>>

\* redo without the test of the memento: restore_from_memento(None) runs.
redo_restores_none ==
    \E hm \in {HistoryManager_redo(_history, _redo_stack)} :
        /\ _history' = hm._history
        /\ _redo_stack' = hm._redo_stack
        /\ _current_result' = restore_from_memento(hm.ret)
        /\ call' = Outcome("redo", <<>>, <<>>, <<>>, hm.ret, <<>>)
        /\ UNCHANGED <<last_calculation, _observers>>

\* Calculator.redo
redo ==
    \E hm \in {HistoryManager_redo(_history, _redo_stack)} :
        /\ _history' = hm._history
        /\ _redo_stack' = hm._redo_stack
        /\ _current_result' =
              IF hm.ret # <<>> THEN restore_from_memento(hm.ret) ELSE _current_result
        /\ call' = Outcome("redo", <<>>, <<>>, <<>>, hm.ret, <<>>)
        /\ UNCHANGED <<last_calculation, _observers>>

\* A failure after the redo stack was cleared (save moved before calculate).
Untouched_but_redo(calculator, args, raised) ==
    [_current_result |-> calculator._current_result,
     _history |-> calculator._history,
     _redo_stack |-> <<>>,
     last_calculation |-> calculator.last_calculation,
     call |-> Outcome("execute_operation", args, raised, <<>>, <<>>, <<>>)]

\* The fields of the calculator and the outcome of the call when
\* execute_operation raises before it has assigned anything.
Untouched(calculator, args, raised) ==
    [_current_result |-> calculator._current_result,
     _history |-> calculator._history,
     _redo_stack |-> calculator._redo_stack,
     last_calculation |-> calculator.last_calculation,
     call |-> Outcome("execute_operation", args, raised, <<>>, <<>>, <<>>)]

\* Calculator.execute_operation on the instance whose attributes are
\* calculator, as a function of the state before the call: the four
\* attributes after it and the outcome of the call.  The statements run in
\* the order of the source, and an exception leaves the attributes as the
\* statements before it set them.  self._observers is the list of the
\* class, whatever the instance: no instance has an attribute of that name.
execute_on(calculator, operation_name, a, b) ==
    LET args == <<operation_name, a, b>>
        operation == create_operation(operation_name)
    IN  IF operation.raised # <<>> THEN Untouched(calculator, args, operation.raised)
        ELSE LET result == calculate(operation.cls, a, b)
             IN  IF result.raised # <<>> THEN Untouched(calculator, args, result.raised)
                 ELSE LET saved == HistoryManager_save(calculator._history,
                                                       calculator._redo_stack,
                                                       create_memento(result.value))
                          calculation == Calculation(a, b, operation.cls, result.value)
                          notify == _notify_observers(_observers,
                                        [_current_result |-> result.value,
                                         last_calculation |-> <<calculation>>])
                      IN  [_current_result |-> result.value,
                           _history |-> saved._history,
                           _redo_stack |-> saved._redo_stack,
                           last_calculation |-> <<calculation>>,
                           call |-> Outcome("execute_operation", args, notify.raised,
                                            IF notify.raised = <<>> THEN <<calculation>>
                                            ELSE <<>>,
                                            <<>>, notify.notified)]

\* execute_operation on the Calculator the variables describe.
execute(operation_name, a, b) == execute_on(self, operation_name, a, b)

execute_operation(operation_name, a, b) ==
    \E after \in {execute(operation_name, a, b)} :
        /\ _current_result' = after._current_result
        /\ _history' = after._history
        /\ _redo_stack' = after._redo_stack
        /\ last_calculation' = after.last_calculation
        /\ call' = after.call
        /\ UNCHANGED _observers

(* ----------------------- app/input_validators.py ---------------------- *)

\* A string the user types for an operand is the sequence of its characters.

\* The value of a decimal digit.
Digits ==
    [c \in {"0", "1", "2", "3", "4", "5", "6", "7", "8", "9"} |->
        CASE c = "0" -> 0 [] c = "1" -> 1 [] c = "2" -> 2 [] c = "3" -> 3
          [] c = "4" -> 4 [] c = "5" -> 5 [] c = "6" -> 6 [] c = "7" -> 7
          [] c = "8" -> 8 [] c = "9" -> 9]

\* The value of a non-empty sequence of digits.
RECURSIVE Decimal(_)
Decimal(cs) ==
    IF Len(cs) = 1 THEN Digits[cs[1]]
    ELSE 10 * Decimal(SubSeq(cs, 1, Len(cs) - 1)) + Digits[cs[Len(cs)]]

\* The floats that are no rationals: float('nan'), and float('inf') and
\* float('-inf') with n the sign.
NaN == [k |-> "nan", n |-> 0, d |-> 1]
Infinity(sign) == [k |-> "inf", n |-> sign, d |-> 1]

\* float(string), for the strings of the model: an optional minus sign
\* followed by one or more digits, by "nan" or by "inf" gives the float, any
\* other string raises ValueError.
float(string) ==
    LET unsigned == IF string # <<>> /\ string[1] = "-" THEN Tail(string) ELSE string
        sign == IF unsigned = string THEN 1 ELSE -1
    IN  IF unsigned # <<>> /\ \A k \in 1..Len(unsigned) : unsigned[k] \in DOMAIN Digits
        THEN [raised |-> <<>>, value |-> Num(sign * Decimal(unsigned))]
        ELSE IF unsigned = <<"n", "a", "n">> THEN [raised |-> <<>>, value |-> NaN]
        ELSE IF unsigned = <<"i", "n", "f">>
        THEN [raised |-> <<>>, value |-> Infinity(sign)]
        ELSE [raised |-> <<ValueError("could not convert string to float", "float")>>,
              value |-> Num(0)]

\* abs(x) of a float: the sign is dropped, nan stays nan.
abs(x) ==
    CASE x.k = "nan" -> NaN
      [] x.k = "inf" -> Infinity(1)
      [] OTHER -> Rat(Abs(x.n), x.d)

\* x > limit for a float x and a finite limit: every comparison with nan is
\* False.
gt(x, limit) ==
    CASE x.k = "nan" -> FALSE
      [] x.k = "inf" -> x.n > 0
      [] OTHER -> x.n > limit * x.d

\* config.max_input_value (1e9 unless the environment sets it), scaled to
\* the operands of the model.
max_input_value == MaxOperand

ValidationError(msg) ==
    [type |-> "ValidationError", msg |-> msg, origin |-> "validate_operands"]

\* validate_operands without the test against max_input_value.
validate_operands_unbounded(operands) ==
    IF Len(operands) # 2
    THEN [raised |-> <<ValidationError("Exactly two numerical arguments are required.")>>,
          value |-> <<>>]
    ELSE LET a == float(operands[1])
             b == float(operands[2])
         IN  IF a.raised # <<>> \/ b.raised # <<>>
             THEN [raised |-> <<ValidationError("Both arguments must be valid numbers.")>>,
                   value |-> <<>>]
             ELSE [raised |-> <<>>, value |-> <<a.value, b.value>>]

\* validate_operands(operands): the pair of numbers returned, or the
\* ValidationError raised.
validate_operands(operands) ==
    IF Len(operands) # 2
    THEN [raised |-> <<ValidationError("Exactly two numerical arguments are required.")>>,
          value |-> <<>>]
    ELSE LET a == float(operands[1])
             b == float(operands[2])
         IN  IF a.raised # <<>> \/ b.raised # <<>>
             THEN [raised |-> <<ValidationError("Both arguments must be valid numbers.")>>,
                   value |-> <<>>]
             ELSE IF gt(abs(a.value), max_input_value) \/ gt(abs(b.value), max_input_value)
             THEN [raised |-> <<ValidationError("Operands must be between the limits.")>>,
                   value |-> <<>>]
             ELSE [raised |-> <<>>, value |-> <<a.value, b.value>>]

(* ---------------------------- app/logger.py --------------------------- *)

\* cls.__name__, the name of an operation class as the source writes it.
__name__ ==
    [cls \in {"Add", "Subtract", "Multiply", "Divide", "Power", "Root", "Modulus",
              "IntegerDivide", "Percentage", "AbsoluteDifference"} |->
        CASE cls = "Add" -> Str("add", {1})
          [] cls = "Subtract" -> Str("subtract", {1})
          [] cls = "Multiply" -> Str("multiply", {1})
          [] cls = "Divide" -> Str("divide", {1})
          [] cls = "Power" -> Str("power", {1})
          [] cls = "Root" -> Str("root", {1})
          [] cls = "Modulus" -> Str("modulus", {1})
          [] cls = "IntegerDivide" -> Str("integerdivide", {1, 8})
          [] cls = "Percentage" -> Str("percentage", {1})
          [] cls = "AbsoluteDifference" -> Str("absolutedifference", {1, 9})]

\* LoggingObserver.update logging the subject whatever its last_calculation.
LoggingObserver_update_unguarded(subject) ==
    <<[Operation |-> Str("", {}), Operands |-> <<>>, Result |-> subject._current_result]>>

\* LoggingObserver.update(subject): the messages handed to logging.info,
\* none or one.  The message names the class of the operation, the two
\* operands and the result.
LoggingObserver_update(subject) ==
    IF subject.last_calculation = <<>> THEN <<>>
    ELSE LET calc == subject.last_calculation[1]
         IN  <<[Operation |-> __name__[calc.operation],
                Operands |-> <<calc.a, calc.b>>,
                Result |-> calc.result]>>

\* The dict AutoSaveObserver.update appends for a Calculation.  Its
\* Timestamp, the time of the call, is not modelled.
Record(calc) ==
    [Operation |-> __name__[calc.operation], Operand_A |-> calc.a,
     Operand_B |-> calc.b, Result |-> calc.result]

\* AutoSaveObserver._load_initial_history: the records of the history file
\* if there is one.  A file is <<>> (no file) or <<rows>>.
_load_initial_history(file) == IF file = <<>> THEN <<>> ELSE file[1]

\* AutoSaveObserver.update appending and writing whatever config.auto_save is.
AutoSaveObserver_update_always(saver, output_file, auto_save, subject) ==
    IF subject.last_calculation = <<>>
    THEN [auto_saver |-> saver, output_file |-> output_file]
    ELSE LET appended == Append(saver.history, Record(subject.last_calculation[1]))
         IN  [auto_saver |-> [saver EXCEPT !.history = appended],
              output_file |-> <<appended>>]

\* AutoSaveObserver.update(subject): the observer's attributes and its
\* output file after the call.  to_csv writes the whole of self.history.
AutoSaveObserver_update(saver, output_file, auto_save, subject) ==
    IF ~auto_save THEN [auto_saver |-> saver, output_file |-> output_file]
    ELSE IF subject.last_calculation = <<>>
    THEN [auto_saver |-> saver, output_file |-> output_file]
    ELSE LET appended == Append(saver.history, Record(subject.last_calculation[1]))
         IN  [auto_saver |-> [saver EXCEPT !.history = appended],
              output_file |-> <<appended>>]

\* The calls of update that _notify_observers made on the App's
\* AutoSaveObserver, in their order.
RECURSIVE AutoSaveObserver_updates(_, _, _, _)
AutoSaveObserver_updates(notified, saver, output_file, auto_save) ==
    IF notified = <<>> THEN [auto_saver |-> saver, output_file |-> output_file]
    ELSE IF Head(notified).observer # "AutoSaveObserver"
    THEN AutoSaveObserver_updates(Tail(notified), saver, output_file, auto_save)
    ELSE LET first == AutoSaveObserver_update(saver, output_file, auto_save,
                          [last_calculation |-> Head(notified).last_calculation])
         IN  AutoSaveObserver_updates(Tail(notified), first.auto_saver,
                                      first.output_file, auto_save)

\* What the observers registered by the App did with the notifications of
\* one execute_operation.
Notify(notified) ==
    \E after \in {AutoSaveObserver_updates(notified, auto_saver,
                                            files.calculation_history,
                                            config.auto_save)} :
        /\ auto_saver' = after.auto_saver
        /\ files' = [files EXCEPT !.calculation_history = after.output_file]
        /\ UNCHANGED config

(* ------------------------ app/calculator_repl.py ---------------------- *)

\* The string str(i) of a number of one digit.
Typed(i) ==
    LET digit == CHOOSE c \in DOMAIN Digits : Digits[c] = Abs(i)
    IN  IF i < 0 THEN <<"-", digit>> ELSE <<digit>>

\* The words the user types after a calculation command: zero, the largest
\* number validate_operands accepts, a negative number whose magnitude is
\* just above it, and a word that is no number.
Words ==
    {Typed(i) : i \in {0, MaxOperand, -(MaxOperand + 1)}} \cup {<<"t", "e", "n">>}

\* The argument lists of a command: none, one, two or three words.
ArgumentLists ==
    {<<>>} \cup {<<w>> : w \in Words} \cup (Words \X Words)
        \cup {<<w, w, w>> : w \in Words}

\* App.calculation_commands
calculation_commands ==
    {"add", "subtract", "multiply", "divide", "power", "root", "modulus",
     "int_divide", "percent", "abs_diff"}

\* What a command did: its name and arguments, whether it called
\* execute_operation, and the kind of line it printed.
Command(command, args, executed, printed) ==
    [command |-> command, args |-> args, executed |-> executed, printed |-> printed]

\* The operations of the model take integers: the floats validate_operands
\* returns for the words of ArgumentLists are whole numbers.
Whole(x) == x.n

\* _perform_calculation appending calculator.last_calculation to the session
\* history whatever execute_operation did.
_perform_calculation_appends_last(command_name, args) ==
    \E validated \in {validate_operands(args)} :
        IF validated.raised # <<>>
        THEN /\ repl' = Command(command_name, args, FALSE, "Error: ")
             /\ UNCHANGED <<core, _observers, call, history, persistence>>
        ELSE /\ execute_operation(Str(command_name, {}),
                                  Whole(validated.value[1]), Whole(validated.value[2]))
             /\ Notify(call'.notified)
             /\ history' = history \o last_calculation'
             /\ repl' = Command(command_name, args, TRUE,
                                IF call'.raised = <<>> THEN "Result: "
                                ELSE "An unexpected error occurred during calculation: ")

\* App._perform_calculation(command_name, args).  Every exception of
\* validate_operands and of execute_operation is caught: a ValidationError
\* (or OperationError) by the first handler, any other by the second.
_perform_calculation(command_name, args) ==
    \E validated \in {validate_operands(args)} :
        IF validated.raised # <<>>
        THEN /\ repl' = Command(command_name, args, FALSE, "Error: ")
             /\ UNCHANGED <<core, _observers, call, history, persistence>>
        ELSE /\ execute_operation(Str(command_name, {}),
                                  Whole(validated.value[1]), Whole(validated.value[2]))
             /\ Notify(call'.notified)
             /\ history' = IF call'.raised = <<>>
                           THEN Append(history, call'.returned[1])
                           ELSE history
             /\ repl' = Command(command_name, args, TRUE,
                                IF call'.raised = <<>> THEN "Result: "
                                ELSE "An unexpected error occurred during calculation: ")

\* _undo_calculation calling the calculator's undo whatever the session
\* history holds.
_undo_calculation_unguarded ==
    /\ undo
    /\ history' = SubSeq(history, 1, Len(history) - 1)
    /\ repl' = Command("undo", <<>>, FALSE, "")

\* App._undo_calculation
_undo_calculation ==
    IF history # <<>>
    THEN /\ undo
         /\ history' = SubSeq(history, 1, Len(history) - 1)
         /\ repl' = Command("undo", <<>>, FALSE, "")
    ELSE /\ repl' = Command("undo", <<>>, FALSE, "No operation to undo.")
         /\ UNCHANGED <<core, _observers, call, history>>

\* App._redo_calculation
_redo_calculation ==
    /\ redo
    /\ repl' = Command("redo", <<>>, FALSE, "")
    /\ UNCHANGED history

\* App._display_history and App._show_help print and change nothing.
_display_history ==
    /\ repl' = Command("history", <<>>, FALSE,
                       IF history = <<>> THEN "No history to display."
                       ELSE "Calculation History:")
    /\ UNCHANGED <<core, _observers, call, history, persistence>>

_show_help ==
    /\ repl' = Command("help", <<>>, FALSE, "Available Commands:")
    /\ UNCHANGED <<core, _observers, call, history, persistence>>

\* App._clear_history
_clear_history ==
    /\ history' = <<>>
    /\ repl' = Command("clear", <<>>, FALSE, "History cleared.")
    /\ UNCHANGED <<core, _observers, call, persistence>>

\* str(x) of a float that is a whole number of one digit: "2.0", "-2.0".
str_float(i) == Typed(i) \o <<".", "0">>

\* str((calc.a, calc.b)), the text to_csv writes for the tuple of operands.
str_tuple(a, b) == <<"(">> \o str_float(a) \o <<",", " ">> \o str_float(b) \o <<")">>

\* The float a literal of the form written by str_float stands for.
literal(string) ==
    IF Len(string) > 2 /\ SubSeq(string, Len(string) - 1, Len(string)) = <<".", "0">>
    THEN float(SubSeq(string, 1, Len(string) - 2))
    ELSE float(string)

\* ast.literal_eval(row['Operands']) for the text of a tuple of two floats:
\* the tuple, or the error raised for any other text.
literal_eval(string) ==
    LET commas == {k \in 1..Len(string) : string[k] = ","}
        malformed == [raised |-> <<ValueError("malformed node or string", "ast")>>,
                      value |-> <<>>]
    IN  IF \/ Len(string) < 2
           \/ string[1] # "(" \/ string[Len(string)] # ")"
           \/ Cardinality(commas) # 1
        THEN malformed
        ELSE LET comma == CHOOSE k \in commas : TRUE
                 a == literal(SubSeq(string, 2, comma - 1))
                 b == literal(SubSeq(string, comma + 2, Len(string) - 1))
             IN  IF a.raised # <<>> \/ b.raised # <<>> THEN malformed
                 ELSE [raised |-> <<>>, value |-> <<a.value, b.value>>]

\* The rows App._save_history writes: the name of the operation's class,
\* the text of the tuple of operands, and the result.  The Timestamp, the
\* time of the call, is not modelled.
history_data(session) ==
    [i \in 1..Len(session) |->
        [Operation |-> __name__[session[i].operation],
         Operands |-> str_tuple(session[i].a, session[i].b),
         Result |-> session[i].result]]

\* App._save_history.  written: to_csv wrote the file; if it raises, the
\* handler catches the exception and the file is as it was.
_save_history(written) ==
    IF history = <<>>
    THEN /\ repl' = Command("save", <<>>, FALSE, "History is empty. Nothing to save.")
         /\ UNCHANGED <<core, _observers, call, history, persistence>>
    ELSE IF written
    THEN /\ files' = [files EXCEPT !.manual_history = <<history_data(history)>>]
         /\ repl' = Command("save", <<>>, FALSE, "History successfully saved to ")
         /\ UNCHANGED <<core, _observers, call, history, config, auto_saver>>
    ELSE /\ repl' = Command("save", <<>>, FALSE, "Error saving history: ")
         /\ UNCHANGED <<core, _observers, call, history, persistence>>

\* str.replace('Operation', ''): no class of operations.py has 'Operation'
\* in its name, so the names _save_history writes come back as they are.
replace_Operation(string) == string

\* The name _load_history looks up for a row.
stored_name(row) == lower(replace_Operation(row.Operation))

\* The loop of App._load_history over the rows of the file: the session
\* history when the loop ends, and the exception that ended it.
RECURSIVE load_rows(_, _)
load_rows(rows, loaded) ==
    IF rows = <<>> THEN [history |-> loaded, raised |-> <<>>]
    ELSE LET row == Head(rows)
             op_instance == create_operation(stored_name(row))
             operands_tuple == literal_eval(row.Operands)
         IN  IF op_instance.raised # <<>>
             THEN [history |-> loaded, raised |-> op_instance.raised]
             ELSE IF operands_tuple.raised # <<>>
             THEN [history |-> loaded, raised |-> operands_tuple.raised]
             ELSE load_rows(Tail(rows),
                            Append(loaded,
                                   Calculation(Whole(operands_tuple.value[1]),
                                               Whole(operands_tuple.value[2]),
                                               op_instance.cls, row.Result)))

\* App._load_history: read_csv raises FileNotFoundError before anything is
\* changed; the session history is cleared before the loop over the rows,
\* and an exception of the loop leaves it as the loop made it.
_load_history ==
    IF files.manual_history = <<>>
    THEN /\ repl' = Command("load", <<>>, FALSE, "Error: History file not found at ")
         /\ UNCHANGED <<core, _observers, call, history, persistence>>
    ELSE \E after \in {load_rows(files.manual_history[1], <<>>)} :
            /\ history' = after.history
            /\ repl' = Command("load", <<>>, FALSE,
                               IF after.raised = <<>>
                               THEN "History successfully loaded from "
                               ELSE "Error loading history: ")
            /\ UNCHANGED <<core, _observers, call, persistence>>

\* App._exit_app: sys.exit(0) raises SystemExit.
SystemExit(code) == [type |-> "SystemExit", msg |-> "", origin |-> "sys.exit", code |-> code]

_exit_app == <<SystemExit(0)>>

\* The loop of App.start: running, or left with an exit code; input is what
\* the last call of input() did, a line or the exception it raised.
Running(input) == [running |-> TRUE, code |-> <<>>, input |-> input]
Exited(input, code) == [running |-> FALSE, code |-> <<code>>, input |-> input]

\* The except clauses of start with SystemExit caught like an Exception.
after_iteration_catches_exit(input, raised) ==
    IF raised # <<>> /\ raised[1].type = "KeyboardInterrupt"
    THEN Exited(input, _exit_app[1].code)
    ELSE Running(input)

\* One iteration of the loop of App.start whose body raised the given
\* exception (<<>>: none).  KeyboardInterrupt is handled by _exit_app, whose
\* SystemExit leaves the loop; SystemExit is no Exception and is not caught;
\* any other exception is caught and the loop goes on.
after_iteration(input, raised) ==
    IF raised = <<>> THEN Running(input)
    ELSE IF raised[1].type = "KeyboardInterrupt" THEN Exited(input, _exit_app[1].code)
    ELSE IF raised[1].type = "SystemExit" THEN Exited(input, raised[1].code)
    ELSE Running(input)

(* ------------------------- sequences of calls ------------------------- *)

\* The history variables follow the calls of execute_operation, undo and
\* redo.  An event is "executed" (execute_operation returned), "raised"
\* (it raised), "undo" or "redo".
\*
\* round_trip: "executed" after an execute_operation that returned, with the
\*   _current_result before it (r) and after it (v); "undone" when the next
\*   call was undo; "redone" when the call after that was redo.
\* branch: "undo" after an undo; "undo;execute" when the next call was an
\*   execute_operation that returned, with the _current_result after it (v);
\*   "undo;execute;redo" when the call after that was redo.
\* sequence: "execute" while every call since construction was an
\*   execute_operation that returned, vs being <<0.0, v1, ..., vn>>; "undo"
\*   while the calls after these were k <= n undos; "redo" while the calls
\*   after these were j <= k redos; h and r are the two stacks before the
\*   first undo.

Idle == [phase |-> "idle", r |-> Num(0), v |-> Num(0)]

round_trip_after(event) ==
    CASE event = "executed" ->
            [phase |-> "executed", r |-> _current_result, v |-> _current_result']
      [] event = "undo" /\ round_trip.phase = "executed" ->
            [round_trip EXCEPT !.phase = "undone"]
      [] event = "redo" /\ round_trip.phase = "undone" ->
            [round_trip EXCEPT !.phase = "redone"]
      [] OTHER -> Idle

branch_after(event) ==
    CASE event = "undo" -> [Idle EXCEPT !.phase = "undo"]
      [] event = "executed" /\ branch.phase = "undo" ->
            [phase |-> "undo;execute", r |-> _current_result, v |-> _current_result']
      [] event = "redo" /\ branch.phase = "undo;execute" ->
            [branch EXCEPT !.phase = "undo;execute;redo"]
      [] OTHER -> Idle

Off == [phase |-> "off", vs |-> <<>>, k |-> 0, j |-> 0, h |-> <<>>, r |-> <<>>]

sequence_after(event) ==
    CASE event = "executed" /\ sequence.phase = "execute" ->
            [sequence EXCEPT !.vs = Append(@, _current_result')]
      [] event = "undo" /\ sequence.phase = "execute" /\ Len(sequence.vs) > 1 ->
            [sequence EXCEPT !.phase = "undo", !.k = 1,
                             !.h = _history, !.r = _redo_stack]
      [] event = "undo" /\ sequence.phase = "undo"
                        /\ sequence.k + 1 < Len(sequence.vs) ->
            [sequence EXCEPT !.k = @ + 1]
      [] event = "redo" /\ sequence.phase = "undo" ->
            [sequence EXCEPT !.phase = "redo", !.j = 1]
      [] event = "redo" /\ sequence.phase = "redo" /\ sequence.j < sequence.k ->
            [sequence EXCEPT !.j = @ + 1]
      [] OTHER -> Off

Track(event) ==
    /\ round_trip' = round_trip_after(event)
    /\ branch' = branch_after(event)
    /\ sequence' = sequence_after(event)

(* --------------------------- specifications --------------------------- *)

\* The instance attributes after Calculator.__init__.
Calculator__init__ ==
    LET saved == HistoryManager_save(<<>>, <<>>, create_memento(Num(0)))
    IN  [_current_result |-> Num(0), _history |-> saved._history,
         _redo_stack |-> saved._redo_stack, last_calculation |-> <<>>]

\* One Calculator, used without the REPL: there is no second instance, no
\* session history, and nothing is calculated outside the Calculator.
Alone ==
    /\ other = <<>>
    /\ on = "A"
    /\ registered_on = <<>>
    /\ calculated = <<>>
    /\ history = <<>>
    /\ repl = <<>>
    /\ NoApp

\* __init__ without the save of the genesis snapshot.
Init_without_genesis ==
    /\ _current_result = Num(0)
    /\ _history = <<>>
    /\ _redo_stack = <<>>
    /\ last_calculation = <<>>
    /\ _observers = <<>>
    /\ call = Outcome("__init__", <<>>, <<>>, <<>>, <<>>, <<>>)
    /\ round_trip = Idle
    /\ branch = Idle
    /\ sequence = [Off EXCEPT !.phase = "execute", !.vs = <<Num(0)>>]
    /\ Alone

\* Calculator.__init__
Init ==
    /\ _current_result = Num(0)
    /\ \E saved \in {HistoryManager_save(<<>>, <<>>, create_memento(Num(0)))} :
           /\ _history = saved._history
           /\ _redo_stack = saved._redo_stack
    /\ last_calculation = <<>>
    /\ _observers = <<>>
    /\ call = Outcome("__init__", <<>>, <<>>, <<>>, <<>>, <<>>)
    /\ round_trip = Idle
    /\ branch = Idle
    /\ sequence = [Off EXCEPT !.phase = "execute", !.vs = <<Num(0)>>]
    /\ Alone

\* Every operation of the registry, on a calculator without observers.
Execute ==
    \E n \in OperationNames, a \in Operands_a, b \in Operands_b :
        /\ execute_operation(n, a, b)
        /\ Len(_history') <= WideHistory
        /\ UNCHANGED <<tracked, outside>>

Undo == undo /\ UNCHANGED <<tracked, outside>>

Redo == redo /\ UNCHANGED <<tracked, outside>>

Next == Execute \/ Undo \/ Redo

Spec == Init /\ [][Next]_vars

\* Longer histories of a few operations, with the calls followed by the
\* history variables.
ExecuteTracked ==
    \E n \in FewNames, a \in Operands_a, b \in Operands_b :
        /\ execute_operation(n, a, b)
        /\ Len(_history') <= MaxHistory
        /\ Track(IF call'.raised = <<>> THEN "executed" ELSE "raised")
        /\ UNCHANGED outside

UndoTracked == undo /\ Track("undo") /\ UNCHANGED outside

RedoTracked == redo /\ Track("redo") /\ UNCHANGED outside

NextHistory == ExecuteTracked \/ UndoTracked \/ RedoTracked

SpecHistory == Init /\ [][NextHistory]_vars

\* A few operations on a calculator whose observers come and go.
ExecuteFew ==
    \E n \in FewNames, a \in Operands_a, b \in Operands_b :
        /\ execute_operation(n, a, b)
        /\ Len(_history') <= WideHistory
        /\ UNCHANGED <<tracked, outside>>

Register ==
    \E o \in Observers :
        /\ Len(_observers) < MaxObservers
        /\ register_observer(o)
        /\ UNCHANGED <<tracked, outside>>

Unregister ==
    \E o \in Observers :
        unregister_observer(o) /\ UNCHANGED <<tracked, outside>>

NextObservers == ExecuteFew \/ Undo \/ Redo \/ Register \/ Unregister

SpecObservers == Init /\ [][NextObservers]_vars

\* An operation of the registry applied to a pair of operands, outside a
\* Calculator and through execute_operation: the name and the operands are
\* drawn when the specification starts.

InitOperations ==
    /\ _current_result = Calculator__init__._current_result
    /\ _history = Calculator__init__._history
    /\ _redo_stack = Calculator__init__._redo_stack
    /\ last_calculation = Calculator__init__.last_calculation
    /\ _observers = <<>>
    /\ call = Outcome("__init__", <<>>, <<>>, <<>>, <<>>, <<>>)
    /\ round_trip = Idle
    /\ branch = Idle
    /\ sequence = Off
    /\ other = <<>>
    /\ on = "A"
    /\ registered_on = <<>>
    /\ \E n \in CasedNames, a \in Values, b \in Values :
           calculated = [operation_name |-> n, a |-> a, b |-> b, done |-> FALSE,
                         cls |-> "", raised |-> <<>>, value |-> Num(0)]
    /\ history = <<>>
    /\ repl = <<>>
    /\ NoApp

\* operation = OperationFactory.create_operation(name); operation.calculate(a, b)
Calculate ==
    /\ ~calculated.done
    /\ \E result \in {create_and_calculate(calculated.operation_name,
                                            calculated.a, calculated.b)} :
           calculated' = [calculated EXCEPT !.done = TRUE, !.cls = result.cls,
                                            !.raised = result.raised,
                                            !.value = result.value]
    /\ UNCHANGED <<core, _observers, call, tracked, instances, app>>

\* execute_operation with the name and the operands drawn.
ExecuteInput ==
    /\ execute_operation(calculated.operation_name, calculated.a, calculated.b)
    /\ Len(_history') <= WideHistory
    /\ UNCHANGED <<tracked, outside>>

NextOperations == Calculate \/ ExecuteInput

SpecOperations == InitOperations /\ [][NextOperations]_vars

\* The REPL: calculation, undo and redo commands typed at the prompt.

\* App.__init__: a Calculator, an empty session history, and the logger and
\* the auto-saver registered.
InitRepl ==
    /\ _current_result = Calculator__init__._current_result
    /\ _history = Calculator__init__._history
    /\ _redo_stack = Calculator__init__._redo_stack
    /\ last_calculation = Calculator__init__.last_calculation
    /\ _observers = <<"LoggingObserver", "AutoSaveObserver">>
    /\ call = Outcome("register_observer", <<"AutoSaveObserver">>, <<>>, <<>>, <<>>, <<>>)
    /\ round_trip = Idle
    /\ branch = Idle
    /\ sequence = Off
    /\ other = <<>>
    /\ on = "A"
    /\ registered_on = <<>>
    /\ calculated = <<>>
    /\ history = <<>>
    /\ repl = Command("", <<>>, FALSE, "")
    /\ validation = <<>>
    /\ config = [auto_save |-> FALSE]
    /\ auto_saver = [history |-> <<>>]
    /\ files = [calculation_history |-> <<>>, manual_history |-> <<>>]
    /\ updated = <<>>
    /\ loop = <<>>

ReplCalculate ==
    \E command_name \in calculation_commands \cap {"add", "divide"},
       args \in ArgumentLists :
        /\ _perform_calculation(command_name, args)
        /\ Len(_history') <= WideHistory
        /\ UNCHANGED <<tracked, instances, calculated, validation, updated, loop>>

ReplUndo ==
    /\ _undo_calculation
    /\ UNCHANGED <<tracked, instances, calculated, validation, persistence,
                   updated, loop>>

ReplRedo ==
    /\ _redo_calculation
    /\ UNCHANGED <<tracked, instances, calculated, validation, persistence,
                   updated, loop>>

NextRepl == ReplCalculate \/ ReplUndo \/ ReplRedo

SpecRepl == InitRepl /\ [][NextRepl]_vars

\* The App with its loop, its files and its two observers.  One step is one
\* iteration of the loop of start.

\* A record left in the history file by an earlier run of the program.
EarlierRecord == Record(Calculation(MaxOperand, MaxOperand, "Add", Num(2 * MaxOperand)))

\* The lines typed: the command names in either case, and the arguments of
\* a calculation that returns, of one whose operation raises, and of one
\* validate_operands rejects.
TypedCalculations == {Str("divide", {}), Str("percent", {1})}

TypedArguments ==
    {<<Typed(MaxOperand), Typed(MaxOperand)>>, <<Typed(MaxOperand), Typed(0)>>,
     <<<<"t", "e", "n">>>>}

TypedExits == {Str("exit", {}), Str("exit", 1..4)}

InitApp ==
    /\ _current_result = Calculator__init__._current_result
    /\ _history = Calculator__init__._history
    /\ _redo_stack = Calculator__init__._redo_stack
    /\ last_calculation = Calculator__init__.last_calculation
    /\ _observers = <<"LoggingObserver", "AutoSaveObserver">>
    /\ call = Outcome("register_observer", <<"AutoSaveObserver">>, <<>>, <<>>, <<>>, <<>>)
    /\ round_trip = Idle
    /\ branch = Idle
    /\ sequence = Off
    /\ other = <<>>
    /\ on = "A"
    /\ registered_on = <<>>
    /\ calculated = <<>>
    /\ history = <<>>
    /\ repl = Command("", <<>>, FALSE, "")
    /\ validation = <<>>
    /\ \E auto_save \in BOOLEAN : config = [auto_save |-> auto_save]
    /\ \E file \in {<<>>, <<<<EarlierRecord>>>>} :
           /\ files = [calculation_history |-> file, manual_history |-> <<>>]
           /\ auto_saver = [history |-> _load_initial_history(file)]
    /\ updated = <<>>
    /\ loop = Running("")

\* What an iteration leaves alone whatever the line.
Aside == <<tracked, instances, calculated, validation>>

\* One iteration of the loop of start: what input() did, and the exception
\* its body raised.
Iteration(input, raised) ==
    /\ loop.running
    /\ loop' = after_iteration(input, raised)
    /\ updated' = <<>>
    /\ UNCHANGED Aside

\* input() returns a line that is empty once stripped: continue.
AppEmpty ==
    /\ repl' = Command("", <<>>, FALSE, "")
    /\ Iteration("line", <<>>)
    /\ UNCHANGED <<core, _observers, call, history, persistence>>

\* A first word that is no command.
AppUnknown ==
    /\ \E typed \in {Str("bogus", {}), Str("exit!", {})} :
           repl' = Command(lower(typed).text, <<>>, FALSE, "Unknown command: ")
    /\ Iteration("line", <<>>)
    /\ UNCHANGED <<core, _observers, call, history, persistence>>

\* exit, in any case and with any arguments.
AppExit ==
    /\ \E typed \in TypedExits, args \in {<<>>, <<Typed(0)>>} :
           repl' = Command(lower(typed).text, args, FALSE, "Exiting Calculator. Goodbye!")
    /\ Iteration("line", _exit_app)
    /\ UNCHANGED <<core, _observers, call, history, persistence>>

\* input() raises KeyboardInterrupt, or EOFError at the end of the input.
AppInterrupt ==
    /\ repl' = Command("", <<>>, FALSE, "Exiting Calculator. Goodbye!")
    /\ Iteration("KeyboardInterrupt",
                 <<[type |-> "KeyboardInterrupt", msg |-> "", origin |-> "input"]>>)
    /\ UNCHANGED <<core, _observers, call, history, persistence>>

AppInputError ==
    /\ repl' = Command("", <<>>, FALSE, "An unexpected error occurred: ")
    /\ Iteration("EOFError",
                 <<[type |-> "EOFError", msg |-> "", origin |-> "input"]>>)
    /\ UNCHANGED <<core, _observers, call, history, persistence>>

AppCalculate ==
    /\ \E typed \in TypedCalculations, args \in TypedArguments :
           _perform_calculation(lower(typed).text, args)
    /\ Len(_history') <= WideHistory
    /\ Len(history') <= WideHistory
    /\ Len(auto_saver'.history) <= WideHistory
    /\ Iteration("line", <<>>)

AppUndo ==
    /\ _undo_calculation
    /\ Iteration("line", <<>>)
    /\ UNCHANGED persistence

AppRedo ==
    /\ _redo_calculation
    /\ Iteration("line", <<>>)
    /\ UNCHANGED persistence

AppClear ==
    /\ _clear_history
    /\ Iteration("line", <<>>)

AppSave ==
    /\ \E written \in BOOLEAN : _save_history(written)
    /\ Iteration("line", <<>>)

AppLoad ==
    /\ _load_history
    /\ Iteration("line", <<>>)

AppHistory ==
    /\ _display_history
    /\ Iteration("line", <<>>)

AppHelp ==
    /\ _show_help
    /\ Iteration("line", <<>>)

\* observer.update(calculator), called on one of the App's two observers
\* from outside the Calculator.
DirectUpdate ==
    /\ loop.running
    /\ \E observer \in {"LoggingObserver", "AutoSaveObserver"} :
         \E after \in {IF observer = "AutoSaveObserver"
                        THEN AutoSaveObserver_update(auto_saver, files.calculation_history,
                                                     config.auto_save, self)
                        ELSE [auto_saver |-> auto_saver,
                              output_file |-> files.calculation_history]} :
            /\ updated' = [observer |-> observer,
                           logged |-> IF observer = "LoggingObserver"
                                      THEN LoggingObserver_update(self) ELSE <<>>,
                           raised |-> update(observer, self).raised]
            /\ auto_saver' = after.auto_saver
            /\ files' = [files EXCEPT !.calculation_history = after.output_file]
    /\ Len(auto_saver'.history) <= WideHistory
    /\ UNCHANGED <<core, _observers, call, history, repl, config, loop,
                   tracked, instances, calculated, validation>>

NextApp ==
    \/ AppEmpty \/ AppUnknown \/ AppExit \/ AppInterrupt \/ AppInputError
    \/ AppCalculate \/ AppUndo \/ AppRedo \/ AppClear \/ AppSave \/ AppLoad
    \/ AppHistory \/ AppHelp

SpecApp == InitApp /\ [][NextApp]_vars

\* The App's Calculator and its two observers: calculations, undo, redo and
\* clear, and calls of update made on the observers from outside the Calculator.
NextUpdate == AppCalculate \/ AppUndo \/ AppRedo \/ AppClear \/ DirectUpdate

SpecUpdate == InitApp /\ [][NextUpdate]_vars

\* validate_operands applied to a list of strings.  The strings: the limit
\* max_input_value, the whole number above it, both with either sign, zero,
\* a word that is no number, and the two words float() reads as nan and inf.

ValidatedWords ==
    {Typed(i) : i \in {-(max_input_value + 1), -max_input_value, 0,
                        max_input_value, max_input_value + 1}}
        \cup {<<"t", "e", "n">>, <<"n", "a", "n">>, <<"i", "n", "f">>}

ValidatedLists ==
    {<<>>} \cup {<<w>> : w \in ValidatedWords} \cup (ValidatedWords \X ValidatedWords)
        \cup {<<w, w, w>> : w \in ValidatedWords}

InitValidate ==
    /\ _current_result = Calculator__init__._current_result
    /\ _history = Calculator__init__._history
    /\ _redo_stack = Calculator__init__._redo_stack
    /\ last_calculation = Calculator__init__.last_calculation
    /\ _observers = <<>>
    /\ call = Outcome("__init__", <<>>, <<>>, <<>>, <<>>, <<>>)
    /\ round_trip = Idle
    /\ branch = Idle
    /\ sequence = Off
    /\ other = <<>>
    /\ on = "A"
    /\ registered_on = <<>>
    /\ calculated = <<>>
    /\ history = <<>>
    /\ repl = <<>>
    /\ \E operands \in ValidatedLists :
           validation = [operands |-> operands, done |-> FALSE,
                         raised |-> <<>>, value |-> <<>>]
    /\ config = <<>>
    /\ auto_saver = <<>>
    /\ files = <<>>
    /\ updated = <<>>
    /\ loop = <<>>

\* validate_operands(operands)
Validate ==
    /\ ~validation.done
    /\ \E validated \in {validate_operands(validation.operands)} :
           validation' = [validation EXCEPT !.done = TRUE,
                                            !.raised = validated.raised,
                                            !.value = validated.value]
    /\ UNCHANGED <<core, _observers, call, tracked, instances, calculated,
                   history, repl, persistence, updated, loop>>

NextValidate == Validate

SpecValidate == InitValidate /\ [][NextValidate]_vars

\* Two Calculators, A (the variables _current_result .. last_calculation) and
\* B (the variable other), and the observers registered through each.

Calculators == {"A", "B"}

\* instance._observers: no Calculator has an instance attribute of that
\* name (register_observer calls append on it, nothing assigns it), so the
\* lookup gives the attribute of the class, the same list for every instance.
observers_of(calculator) == _observers

\* Calculator() twice, B last.
InitInstances ==
    /\ _current_result = Calculator__init__._current_result
    /\ _history = Calculator__init__._history
    /\ _redo_stack = Calculator__init__._redo_stack
    /\ last_calculation = Calculator__init__.last_calculation
    /\ other = Calculator__init__
    /\ _observers = <<>>
    /\ call = Outcome("__init__", <<>>, <<>>, <<>>, <<>>, <<>>)
    /\ on = "B"
    /\ registered_on = [i \in Calculators |-> <<>>]
    /\ round_trip = Idle
    /\ branch = Idle
    /\ sequence = Off
    /\ calculated = <<>>
    /\ history = <<>>
    /\ repl = <<>>
    /\ NoApp

\* The observers are what this specification varies: the calculations are
\* additions of zero to one of the two first operands.
ExecuteOn ==
    \E i \in Calculators, n \in {Str("add", {})}, a \in Operands_a, b \in {0} :
        /\ IF i = "A"
           THEN /\ execute_operation(n, a, b)
                /\ Len(_history') <= WideHistory
                /\ UNCHANGED other
           ELSE \E after \in {execute_on(other, n, a, b)} :
                    /\ other' = [_current_result |-> after._current_result,
                                 _history |-> after._history,
                                 _redo_stack |-> after._redo_stack,
                                 last_calculation |-> after.last_calculation]
                    /\ call' = after.call
                    /\ Len(after._history) <= WideHistory
                    /\ UNCHANGED <<core, _observers>>
        /\ on' = i
        /\ UNCHANGED <<tracked, registered_on, calculated, app>>

\* register_observer called on either Calculator: the method touches no
\* instance attribute, so it is the same step whatever the instance.
RegisterOn ==
    \E i \in Calculators, o \in Observers :
        /\ Len(_observers) < MaxObservers
        /\ Len(registered_on[i]) < MaxObservers
        /\ register_observer(o)
        /\ on' = i
        /\ registered_on' = [registered_on EXCEPT ![i] = Append(@, o)]
        /\ UNCHANGED <<tracked, other, calculated, app>>

UnregisterOn ==
    \E i \in Calculators, o \in Observers :
        /\ unregister_observer(o)
        /\ on' = i
        /\ registered_on' = [registered_on EXCEPT ![i] = remove(@, o)]
        /\ UNCHANGED <<tracked, other, calculated, app>>

NextInstances == ExecuteOn \/ RegisterOn \/ UnregisterOn

SpecInstances == InitInstances /\ [][NextInstances]_vars

(* ------------------------------- claims ------------------------------- *)

\* The calls the claim C1 names: a zero second operand for divide, modulus,
\* int_divide and percent, a negative first and an even second operand for
\* root.
Rejected(args) ==
    LET name == lower(args[1]).text
        a == args[2]
        b == args[3]
    IN  \/ name \in {"divide", "modulus", "int_divide", "percent"} /\ b = 0
        \/ name = "root" /\ a < 0 /\ b % 2 = 0

\* C1 (failure isolation): an execute_operation whose operation rejects its
\* operands raises to the caller and leaves _current_result, the undo stack,
\* the redo stack and last_calculation as they were before the call.
C1_FailureIsolation ==
    [][(call'.method = "execute_operation" /\ Rejected(call'.args))
          => (call'.raised # <<>> /\ UNCHANGED core)]_vars

\* An even root of a negative number was refused after a calculation and an
\* undo: there was a result, a last calculation and a redo stack to keep.
C1_Witness ==
    /\ call.method = "execute_operation"
    /\ call.raised = <<ValueError("Cannot take an even root of a negative number.", "Root")>>
    /\ last_calculation # <<>>
    /\ _redo_stack # <<>>

\* C2 (unknown operation): an execute_operation with a name that is not a
\* registered name after lower-casing raises the unknown-operation error,
\* calls no observer's update, saves no snapshot and leaves _current_result,
\* both stacks and last_calculation unchanged.
C2_UnknownOperation ==
    [][(/\ call'.method = "execute_operation"
        /\ lower(call'.args[1]).text \notin DOMAIN _operations)
          => /\ call'.raised = <<ValueError("Unknown operation: ", "OperationFactory")>>
             /\ call'.notified = <<>>
             /\ UNCHANGED core]_vars

\* The unknown name was refused by a calculator with an observer and a result.
C2_Witness ==
    /\ call.method = "execute_operation"
    /\ call.raised = <<ValueError("Unknown operation: ", "OperationFactory")>>
    /\ _observers # <<>>
    /\ Len(_history) > 1

\* C3 (branch-discard): after an execute_operation that returned the redo
\* stack is empty; a redo that follows an undo and then such an
\* execute_operation gets None from the History Manager and leaves
\* _current_result as the execute_operation set it.
C3_BranchDiscard ==
    /\ (call.method = "execute_operation" /\ call.raised = <<>>) => _redo_stack = <<>>
    /\ branch.phase = "undo;execute;redo"
          => (call.memento = <<>> /\ _current_result = branch.v)

\* undo, execute, redo were called in a row, and the undo stack holds three
\* snapshots: the undo popped one, so the redo stack held it when the
\* execute_operation began.
C3_Witness ==
    /\ branch.phase = "undo;execute;redo"
    /\ Len(_history) = MaxHistory

\* C4 (genesis invariant): a new Calculator has _current_result 0.0, an undo
\* stack of the one snapshot of 0.0 and an empty redo stack; in every state
\* the undo stack is not empty and its bottom element is that snapshot.
C4_Genesis ==
    /\ call.method = "__init__"
          => /\ _current_result = Num(0)
             /\ _history = <<CalculatorMemento(Num(0))>>
             /\ _redo_stack = <<>>
    /\ Len(_history) >= 1
    /\ _history[1] = CalculatorMemento(Num(0))

\* Every calculation was undone, and one more undo was called.
C4_Witness ==
    /\ call.method = "undo"
    /\ call.memento = <<>>
    /\ Len(_history) = 1
    /\ Len(_redo_stack) = MaxHistory - 1

\* C5 (round trip): an execute_operation that returned, from _current_result
\* r to v, followed by undo, gives _current_result r; a redo after that
\* gives v.
C5_RoundTrip ==
    /\ round_trip.phase = "undone" => _current_result = round_trip.r
    /\ round_trip.phase = "redone" => _current_result = round_trip.v

\* The three calls were made from a state whose result was not 0.0.
C5_Witness ==
    /\ round_trip.phase = "redone"
    /\ round_trip.r # Num(0)
    /\ round_trip.v # round_trip.r

\* C6 (multi-step undo/redo): after n execute_operations that returned v1..vn
\* on a new calculator, k <= n undos in a row leave _current_result at
\* v(n-k), with v0 = 0.0; j <= k redos after them leave it at v(n-k+j); and
\* after the k-th redo both stacks are as they were before the first undo.
C6_UndoRedoSequence ==
    /\ sequence.phase = "undo"
          => _current_result = sequence.vs[Len(sequence.vs) - sequence.k]
    /\ sequence.phase = "redo"
          => _current_result = sequence.vs[Len(sequence.vs) - sequence.k + sequence.j]
    /\ (sequence.phase = "redo" /\ sequence.j = sequence.k)
          => (_history = sequence.h /\ _redo_stack = sequence.r)

\* Two calculations with different results, two undos, two redos.
C6_Witness ==
    /\ sequence.phase = "redo"
    /\ sequence.k = 2
    /\ sequence.j = 2
    /\ sequence.vs[2] # sequence.vs[3]

\* C7 (undo at genesis): an undo called when the undo stack holds only the
\* genesis snapshot gets None from the History Manager and leaves
\* _current_result and both stacks unchanged.
C7_UndoAtGenesis ==
    [][(Len(_history) = 1 /\ undo)
          => (call'.memento = <<>>
              /\ UNCHANGED <<_current_result, _history, _redo_stack>>)]_vars

\* undo was called at genesis with calculations on the redo stack.
C7_Witness ==
    /\ call.method = "undo"
    /\ call.memento = <<>>
    /\ _redo_stack # <<>>

\* C8 (redo with an empty redo stack): a redo called when the redo stack is
\* empty gets None from the History Manager and leaves _current_result and
\* both stacks unchanged.
C8_RedoWithEmptyStack ==
    [][(_redo_stack = <<>> /\ redo)
          => (call'.memento = <<>>
              /\ UNCHANGED <<_current_result, _history, _redo_stack>>)]_vars

\* redo was called with nothing to redo, after calculations.
C8_Witness ==
    /\ call.method = "redo"
    /\ call.memento = <<>>
    /\ _current_result # Num(0)
    /\ Len(_history) = MaxHistory

\* C9 (strong exception safety): an execute_operation that raises, whatever
\* the cause, leaves _current_result, both stacks and last_calculation as
\* they were before the call.
C9_StrongExceptionSafety ==
    [][(call'.method = "execute_operation" /\ call'.raised # <<>>)
          => UNCHANGED core]_vars

\* The observers update was called on during the last call, in call order.
Notified == [i \in 1..Len(call.notified) |-> call.notified[i].observer]

\* How often x occurs in the sequence s.
Count(x, s) == Cardinality({i \in 1..Len(s) : s[i] = x})

\* C10 (observer fan-out): an execute_operation that returns has called
\* update on every registered observer once, in registration order, each
\* call with the new Calculation in place as last_calculation; one that
\* raises has called update on no observer.
C10_ObserverFanOut ==
    call.method = "execute_operation"
        => /\ call.raised = <<>>
                => /\ Notified = _observers
                   /\ \A o \in Observers :
                         Count(o, _observers) > 0 => Count(o, Notified) = 1
                   /\ \A i \in 1..Len(call.notified) :
                         /\ call.notified[i].last_calculation = call.returned
                         /\ call.returned = last_calculation
                         /\ _current_result = call.returned[1].result
                         /\ _history[Len(_history)] = CalculatorMemento(_current_result)
           /\ call.raised # <<>> => call.notified = <<>>

\* C11 (instance-scoped observer lists): an execute_operation on one
\* Calculator calls update on no observer that is registered on the other
\* Calculator only, and a register_observer or unregister_observer on one
\* Calculator leaves the observer list of the other as it was.
C11_InstanceScopedObservers ==
    [][/\ call'.method = "execute_operation"
            => \A o \in Observers, i \in Calculators \ {on'} :
                  (Count(o, registered_on'[i]) > 0 /\ Count(o, registered_on'[on']) = 0)
                      => \A k \in 1..Len(call'.notified) :
                             call'.notified[k].observer # o
       /\ call'.method \in {"register_observer", "unregister_observer"}
            => \A i \in Calculators \ {on'} : observers_of(i)' = observers_of(i)]_vars

\* C12 (unregistering an unknown observer): an unregister_observer of an
\* observer that is not in the observer list raises nothing and leaves the
\* observer list, _current_result, both stacks and last_calculation
\* unchanged.
C12_UnregisterAbsent ==
    [][(call'.method = "unregister_observer" /\ Count(call'.args[1], _observers) = 0)
          => (call'.raised = <<>> /\ UNCHANGED <<_observers, core>>)]_vars

\* The last call was an unregister_observer that removed nothing (the list
\* is still full) for an observer that is not in it, after a calculation.
C12_Witness ==
    /\ call.method = "unregister_observer"
    /\ Count(call.args[1], _observers) = 0
    /\ Len(_observers) = MaxObservers
    /\ Len(_history) > 1

\* C13 (unregister removes the observer): after an unregister_observer(o)
\* the observer list is the list before the call without o, however often o
\* was registered, the other observers in the order they had; and an
\* execute_operation calls update on observers of the list only, so o is
\* not notified again.
C13_UnregisterRemoves ==
    [][/\ call'.method = "unregister_observer"
            => _observers' = SelectSeq(_observers, LAMBDA x : x # call'.args[1])
       /\ call'.method = "execute_operation"
            => \A k \in 1..Len(call'.notified) :
                   Count(call'.notified[k].observer, _observers) > 0]_vars

\* C14 (effect of a successful execute_operation): after an
\* execute_operation(name, a, b) that returned, _current_result is op(a, b)
\* for the operation op the name resolves to; the undo stack is the one
\* before the call with one snapshot of that value on top; the Calculation
\* returned holds a, b, the operation and the result op(a, b); and
\* last_calculation is that Calculation.
C14_ExecuteEffect ==
    [][(call'.method = "execute_operation" /\ call'.raised = <<>>)
          => LET op == _operations[lower(call'.args[1]).text]
                 a == call'.args[2]
                 b == call'.args[3]
                 value == calculate(op, a, b).value
             IN  /\ _current_result' = value
                 /\ _history' = Append(_history, [_state |-> value])
                 /\ call'.returned =
                       <<[a |-> a, b |-> b, operation |-> op, result |-> value]>>
                 /\ last_calculation' = call'.returned]_vars

\* A power with a negative exponent was calculated, MaxOperand ** -MaxOperand,
\* and its value is the top snapshot.
C14_Witness ==
    /\ call.method = "execute_operation"
    /\ call.raised = <<>>
    /\ call.returned[1].operation = "Power"
    /\ call.args[2] # call.args[3]
    /\ _history[Len(_history)] = CalculatorMemento(Rat(1, IntPow(MaxOperand, MaxOperand)))

\* The name of the drawn operation in lower case, and its operands.
Name == lower(calculated.operation_name).text

\* C15 (one error kind for a zero denominator): divide, modulus, int_divide
\* and percent with a second operand of zero all raise an exception of the
\* type create_operation raises for an unknown name.
C15_ZeroDenominatorKind ==
    (/\ calculated.done
     /\ Name \in {"divide", "modulus", "int_divide", "percent"}
     /\ calculated.b = 0)
        => /\ calculated.raised # <<>>
           /\ calculated.raised[1].type
                 = create_operation(Str("bogus", {})).raised[1].type

\* C16 (even root of a negative number): root with a negative first operand
\* and an even second operand, zero included, raises the even-root error,
\* and not the error of the division 1/b.
C16_EvenRoot ==
    (/\ calculated.done
     /\ Name = "root"
     /\ calculated.a < 0
     /\ calculated.b % 2 = 0)
        => calculated.raised
             = <<ValueError("Cannot take an even root of a negative number.", "Root")>>

\* The zeroth root of a negative number was asked for.
C16_Witness ==
    /\ calculated.done
    /\ Name = "root"
    /\ calculated.a < 0
    /\ calculated.b = 0
    /\ calculated.raised # <<>>

\* C17 (total operations): add, subtract, multiply, power and abs_diff
\* return a value for every pair of operands, and raise nothing.
C17_NeverFails ==
    (calculated.done /\ Name \in {"add", "subtract", "multiply", "power", "abs_diff"})
        => calculated.raised = <<>>

\* C18 (case-insensitive names): for a registered name in any case,
\* create_operation gives the operation registered under the lower-case
\* name, and execute_operation does to the calculator and returns what it
\* does and returns for the lower-case name.  (A step that changes
\* calculated is the bare create_operation and calculate; every other step
\* is an execute_operation.)
C18_CaseInsensitive ==
    [][/\ (calculated' # calculated /\ Name \in DOMAIN _operations)
            => /\ calculated'.cls = _operations[Name]
               /\ calculated'.raised
                     = calculate(_operations[Name], calculated.a, calculated.b).raised
       /\ (calculated' = calculated /\ Name \in DOMAIN _operations)
            => \E low \in {execute(Str(Name, {}), calculated.a, calculated.b)} :
                  /\ _current_result' = low._current_result
                  /\ _history' = low._history
                  /\ _redo_stack' = low._redo_stack
                  /\ last_calculation' = low.last_calculation
                  /\ call' = [low.call EXCEPT !.args = call'.args]]_vars

\* A name written in upper case was resolved, and execute_operation was
\* called with it and returned.
C18_Witness ==
    /\ calculated.done
    /\ calculated.operation_name.caps = Letters[Name]
    /\ calculated.cls = "IntegerDivide"
    /\ call.method = "execute_operation"
    /\ call.returned # <<>>

\* floor(a/b) for b # 0: the integer q with q <= a/b < q + 1.
IsFloor(q, a, b) ==
    IF b > 0 THEN q * b <= a /\ a < (q + 1) * b
    ELSE q * b >= a /\ a > (q + 1) * b

\* C19 (dispatch table): where the operation does not fail, the value of
\* add is a + b, of subtract a - b, of multiply a * b, of abs_diff |a - b|,
\* of int_divide floor(a/b), of modulus a - b * floor(a/b), of percent
\* (a/b) * 100; and no two names are registered with the same operation.
C19_DispatchTable ==
    /\ \A n1, n2 \in DOMAIN _operations : _operations[n1] = _operations[n2] => n1 = n2
    /\ (calculated.done /\ calculated.raised = <<>>)
          => LET a == calculated.a
                 b == calculated.b
                 v == calculated.value
                 Integer(i) == [k |-> "rat", n |-> i, d |-> 1]
             IN  /\ Name = "add" => v = Integer(a + b)
                 /\ Name = "subtract" => v = Integer(a - b)
                 /\ Name = "multiply" => v = Integer(a * b)
                 /\ Name = "abs_diff" => v = Integer(IF a < b THEN b - a ELSE a - b)
                 /\ Name = "int_divide"
                       => \E q \in -MaxOperand..MaxOperand :
                              IsFloor(q, a, b) /\ v = Integer(q)
                 /\ Name = "modulus"
                       => \E q \in -MaxOperand..MaxOperand :
                              IsFloor(q, a, b) /\ v = Integer(a - b * q)
                 /\ Name = "percent"
                       => (v.k = "rat" /\ v.d > 0 /\ v.n * b = a * 100 * v.d)

\* A negative number was divided by a positive one that does not divide it,
\* where rounding down and rounding toward zero differ.
C19_Witness ==
    /\ calculated.done
    /\ Name = "int_divide"
    /\ calculated.a < 0
    /\ calculated.b > 1
    /\ calculated.a % calculated.b # 0
    /\ calculated.raised = <<>>

\* The argument lists validate_operands refuses: not two words, a word that
\* is no number, or a number whose magnitude is above max_input_value.
Invalid(args) ==
    \/ Len(args) # 2
    \/ \E k \in 1..Len(args) :
          \/ float(args[k]).raised # <<>>
          \/ gt(abs(float(args[k]).value), max_input_value)

\* C20 (validation precedes the core): a calculation command whose
\* arguments validate_operands refuses does not call execute_operation and
\* leaves _current_result, both stacks, last_calculation and the session
\* history unchanged.
C20_ValidationFirst ==
    [][(repl'.command \in calculation_commands /\ Invalid(repl'.args))
          => (~repl'.executed /\ UNCHANGED <<core, call, history>>)]_vars

\* A number below the negative limit was refused after a calculation and an
\* undo.
C20_Witness ==
    /\ repl.command = "divide"
    /\ repl.args = <<Typed(MaxOperand), Typed(-(MaxOperand + 1))>>
    /\ ~repl.executed
    /\ repl.printed = "Error: "
    /\ _redo_stack # <<>>


\* C27 (state/history agreement): in every state _current_result is the
\* value of the snapshot on top of the undo stack.
C27_ResultIsTopSnapshot ==
    _current_result = get_state(_history[Len(_history)])

\* A calculation was redone while another one is still undone.
C27_Witness ==
    /\ call.method = "redo"
    /\ call.memento # <<>>
    /\ _redo_stack # <<>>
    /\ _current_result # Num(0)

\* The sequence s in reverse order.
Reverse(s) == [i \in 1..Len(s) |-> s[Len(s) + 1 - i]]

\* The snapshots as one sequence, the oldest first: the undo stack, then
\* the redo stack from its top down.  The cursor is Len(_history).
Timeline == _history \o Reverse(_redo_stack)

\* C28 (cursor refinement): undo and redo leave the sequence of snapshots
\* undo stack ++ reverse(redo stack) as it is; undo moves the cursor one to
\* the left unless it is at the genesis snapshot, redo one to the right
\* unless it is at the end; a save (an execute_operation that returns) cuts
\* the sequence after the cursor and appends the new snapshot.
C28_CursorRefinement ==
    [][/\ call'.method = "undo"
            => /\ Timeline' = Timeline
               /\ Len(_history') = IF Len(_history) > 1 THEN Len(_history) - 1
                                    ELSE Len(_history)
       /\ call'.method = "redo"
            => /\ Timeline' = Timeline
               /\ Len(_history') = IF Len(_history) < Len(Timeline)
                                    THEN Len(_history) + 1
                                    ELSE Len(_history)
       /\ (call'.method = "execute_operation" /\ call'.raised = <<>>)
            => /\ Timeline' = Append(SubSeq(Timeline, 1, Len(_history)),
                                      CalculatorMemento(_current_result'))
               /\ Len(_history') = Len(_history) + 1]_vars

\* The cursor was moved to the right and is in the middle of the sequence.
C28_Witness ==
    /\ call.method = "redo"
    /\ call.memento # <<>>
    /\ Len(_history) = 2
    /\ Len(Timeline) = MaxHistory

\* C29 (frame of undo and redo): an undo or a redo calls update on no
\* observer, raises nothing, returns no Calculation, and leaves
\* last_calculation and the observer list as they were.
C29_UndoRedoFrame ==
    [][call'.method \in {"undo", "redo"}
          => /\ call'.notified = <<>>
             /\ call'.raised = <<>>
             /\ call'.returned = <<>>
             /\ UNCHANGED <<last_calculation, _observers>>]_vars

\* A calculation was undone on a calculator with an observer:
\* last_calculation is still the undone calculation.
C29_Witness ==
    /\ call.method = "undo"
    /\ call.memento # <<>>
    /\ _observers # <<>>
    /\ last_calculation # <<>>
    /\ last_calculation[1].result # _current_result


\* C24: a calculation command whose execute_operation returns appends the
\* returned Calculation, and nothing else, to the end of the session history;
\* a calculation command that fails, in validation or in the operation,
\* leaves the session history as it was.
C24_SessionHistoryAppend ==
    [][repl'.command \in calculation_commands =>
        IF repl'.executed /\ call'.raised = <<>>
        THEN /\ call'.method = "execute_operation"
             /\ call'.returned = last_calculation'
             /\ history' = Append(history, call'.returned[1])
        ELSE history' = history]_vars

\* A division has returned and its Calculation is the last entry of the
\* session history.
C24_Witness ==
    /\ repl.command = "divide"
    /\ repl.printed = "Result: "
    /\ history # <<>>
    /\ history[Len(history)] = call.returned[1]
    /\ call.returned[1].result = _current_result

\* C25: the undo command with a session history that is not empty calls the
\* calculator's undo once and removes the last entry of the session history;
\* with an empty session history it changes nothing, whatever snapshots the
\* calculator holds; the redo command never changes the session history.
C25_UndoRedoCommands ==
    [][/\ (repl'.command = "undo" /\ history # <<>>) =>
            /\ undo
            /\ history' = SubSeq(history, 1, Len(history) - 1)
       /\ (repl'.command = "undo" /\ history = <<>>) =>
            UNCHANGED <<core, _observers, call, history>>
       /\ repl'.command = "redo" => (redo /\ history' = history)]_vars

\* The undo command found the session history empty while the calculator
\* held a snapshot it could have gone back to.
C25_Witness ==
    /\ repl.command = "undo"
    /\ repl.printed = "No operation to undo."
    /\ history = <<>>
    /\ Len(_history) > 1


\* The string is a number float() reads.
Parses(string) == float(string).raised = <<>>

\* The magnitude of the number the string stands for is at most
\* max_input_value.
WithinLimit(string) ==
    LET x == float(string).value
    IN  x.k = "rat" /\ Abs(x.n) <= max_input_value * x.d

\* C21: validate_operands returns if and only if the list has exactly two
\* entries, both are numbers, and both magnitudes are at most
\* max_input_value; it then returns the two numbers in the order of the list.
C21_AcceptsWithinLimit ==
    validation.done =>
        LET operands == validation.operands
            accepted == validation.raised = <<>>
        IN  /\ accepted <=>
                  /\ Len(operands) = 2
                  /\ \A i \in 1..2 : Parses(operands[i]) /\ WithinLimit(operands[i])
            /\ accepted =>
                  validation.value = <<float(operands[1]).value, float(operands[2]).value>>
            /\ ~accepted => validation.raised[1].type = "ValidationError"


\* C22: the load command given right after a save command that wrote the
\* file rebuilds the session history that was saved: the same length, and
\* entry by entry the same operation, operands and result.
C22_SaveLoadRoundTrip ==
    [][(/\ repl.command = "save"
        /\ repl.printed = "History successfully saved to "
        /\ repl'.command = "load") =>
            /\ Len(history') = Len(history)
            /\ \A i \in 1..Len(history) :
                   /\ history'[i].operation = history[i].operation
                   /\ <<history'[i].a, history'[i].b>> = <<history[i].a, history[i].b>>
                   /\ history'[i].result = history[i].result]_vars


\* C23: an iteration of the loop of start whose line is the exit command, or
\* whose input() is interrupted from the keyboard, ends the loop with exit
\* code 0; every other iteration (an empty line, an unknown command, a
\* calculation that fails, an exception that is an Exception) leaves the
\* loop running; and nothing happens once the loop has ended.
C23_LoopTermination ==
    [][/\ loop.running
       /\ IF \/ loop'.input = "KeyboardInterrupt"
             \/ loop'.input = "line" /\ repl'.command = "exit"
          THEN ~loop'.running /\ loop'.code = <<0>>
          ELSE loop'.running /\ loop'.code = <<>>]_vars

\* EXIT typed after a calculation that failed: the loop went on after the
\* failure and has now ended with code 0.
C23_Witness ==
    /\ ~loop.running
    /\ loop.code = <<0>>
    /\ loop.input = "line"
    /\ repl.command = "exit"
    /\ call.method = "execute_operation"
    /\ call.raised # <<>>

\* The record the AutoSaveObserver keeps of a Calculation: the name of the
\* class of its operation, its two operands and its result.
Kept(calc) ==
    [Operation |-> __name__[calc.operation], Operand_A |-> calc.a,
     Operand_B |-> calc.b, Result |-> calc.result]

\* The step called update on the AutoSaveObserver with a last_calculation
\* to read: from execute_operation, or from outside the Calculator.
AutoSaveNotified ==
    IF updated' # <<>>
    THEN updated'.observer = "AutoSaveObserver" /\ last_calculation # <<>>
    ELSE /\ repl'.command \in calculation_commands
         /\ repl'.executed
         /\ \E k \in 1..Len(call'.notified) :
                call'.notified[k].observer = "AutoSaveObserver"

\* C26: with auto_save false no step changes the records of the
\* AutoSaveObserver or its file; with auto_save true a step that notifies
\* the AutoSaveObserver appends exactly one record, that of
\* last_calculation, and writes the records to the file, and every other
\* step (undo, redo and clear among them) leaves the records as they were.
C26_AutoSaveFlag ==
    [][IF config.auto_save /\ AutoSaveNotified
       THEN /\ auto_saver'.history =
                   Append(auto_saver.history, Kept(last_calculation'[1]))
            /\ files'.calculation_history = <<auto_saver'.history>>
       ELSE /\ auto_saver'.history = auto_saver.history
            /\ files'.calculation_history = files.calculation_history]_vars

\* A record of an earlier run and the record of a calculation of this run,
\* both kept after the calculation has been undone and the session history
\* cleared.
C26_Witness ==
    /\ config.auto_save
    /\ Len(auto_saver.history) = 2
    /\ auto_saver.history[1] = EarlierRecord
    /\ auto_saver.history[2] = Kept(last_calculation[1])
    /\ files.calculation_history = <<auto_saver.history>>
    /\ repl.command = "clear"
    /\ Len(_history) = 1

\* C30: a call of update on the LoggingObserver or the AutoSaveObserver
\* returns and leaves the Calculator's result, its two stacks, its
\* last_calculation and its observer list as they were, and records nothing
\* when last_calculation is None; an execute_operation that notifies the two
\* observers leaves the Calculator as execute_operation alone makes it.
C30_ObserversFrame ==
    [][/\ updated' # <<>> =>
            /\ updated'.raised = <<>>
            /\ UNCHANGED <<core, _observers>>
            /\ last_calculation = <<>> =>
                   /\ updated'.logged = <<>>
                   /\ UNCHANGED <<auto_saver, files>>
            /\ last_calculation # <<>> =>
                   (updated'.observer = "LoggingObserver" => Len(updated'.logged) = 1)
       /\ (/\ updated' = <<>>
           /\ repl'.command \in calculation_commands
           /\ repl'.executed
           /\ call'.notified # <<>>) =>
            /\ Len(call'.notified) = Len(_observers)
            /\ call'.raised = <<>>
            /\ _observers' = _observers
            /\ last_calculation' = call'.returned
            /\ _current_result' = last_calculation'[1].result
            /\ _history' = Append(_history, CalculatorMemento(_current_result'))
            /\ _redo_stack' = <<>>]_vars

\* update called on the LoggingObserver before any calculation: nothing
\* is logged.
C30_Witness ==
    /\ updated # <<>>
    /\ updated.observer = "LoggingObserver"
    /\ updated.logged = <<>>
    /\ last_calculation = <<>>
    /\ _history = Calculator__init__._history


\* C31: over calculation, undo and redo commands the session history has one
\* entry less than the undo stack has snapshots (so that "No operation to
\* undo" is the answer exactly when the Calculator has nothing to undo), and
\* the result of its last entry, if it has one, is _current_result.
C31_SessionInSync ==
    /\ Len(history) = Len(_history) - 1
    /\ history # <<>> => history[Len(history)].result = _current_result

\* C32: a load command that fails (no file, or a row whose operation name
\* the registry does not know) leaves the session history as it was before
\* the command, and no load command changes _current_result or either stack.
C32_LoadAllOrNothing ==
    [][repl'.command = "load" =>
          /\ repl'.printed # "History successfully loaded from " => history' = history
          /\ UNCHANGED <<_current_result, _history, _redo_stack>>]_vars

=============================================================================
